---- MODULE Spec2Model ----
(***************************************************************************)
(* A model of Advanced_WLG.py: the leetspeak expander, the mutation of one *)
(* combination, the enumeration of combinations, and generate_wordlist's   *)
(* thread pool, progress counter and result collection.                    *)
(*                                                                         *)
(* A Python str is a sequence of characters; a character is a TLA+ string. *)
(* Two characters carry a name instead of a glyph: U+0130 (capital I with  *)
(* dot above) and U+0307 (combining dot above).                            *)
(***************************************************************************)
EXTENDS Integers, Sequences, FiniteSets, TLC

\* ------------------------------------------------------------------ bounds

\* longest word handed to leetspeak_variations in PureSpec
MaxLen == 3
\* longest token list handed to the enumeration in PureSpec
MaxTokens == 6
\* longest token list of a modelled generate_wordlist run
MaxWords == 2
\* longest years list
MaxYears == 1

\* ------------------------------------------------------- program constants

MAX_THREADS == 10

JOIN_SYMBOLS ==
  << <<>>, <<"_">>, <<"@">>, <<"-">>, <<".">>, <<"$">>, <<"#">>, <<"!">>, <<"&">> >>

LEET_DICT ==
  [c \in {"a", "b", "e", "g", "i", "l", "o", "s", "t", "z"} |->
     CASE c = "a" -> <<"a", "@", "4">>
       [] c = "b" -> <<"b", "8">>
       [] c = "e" -> <<"e", "3">>
       [] c = "g" -> <<"g", "9">>
       [] c = "i" -> <<"i", "1", "!">>
       [] c = "l" -> <<"l", "1">>
       [] c = "o" -> <<"o", "0">>
       [] c = "s" -> <<"s", "$", "5">>
       [] c = "t" -> <<"t", "7">>
       [] c = "z" -> <<"z", "2">>]

\* the length above which process_combo skips the leetspeak expansion
LEET_MAX_LEN == 12

\* the first argument of min() in the range of combination sizes
COMBO_RANGE_STOP == 6

\* ------------------------------------------------------------- strings

IDOT == "U+0130"
COMBINING_DOT == "U+0307"

ASCII_UPPER ==
  <<"A", "B", "C", "D", "E", "F", "G", "H", "I", "J", "K", "L", "M",
    "N", "O", "P", "Q", "R", "S", "T", "U", "V", "W", "X", "Y", "Z">>
ASCII_LOWER ==
  <<"a", "b", "c", "d", "e", "f", "g", "h", "i", "j", "k", "l", "m",
    "n", "o", "p", "q", "r", "s", "t", "u", "v", "w", "x", "y", "z">>

\* str.lower() of one character: a str, of two characters for U+0130
lower(c) ==
  IF \E k \in 1..26 : ASCII_UPPER[k] = c
    THEN <<ASCII_LOWER[CHOOSE k \in 1..26 : ASCII_UPPER[k] = c]>>
    ELSE IF c = IDOT THEN <<"i", COMBINING_DOT>> ELSE <<c>>

\* the object None, a token that is no str
None == <<"None">>
IsStr(t) == t # None

Min(a, b) == IF a < b THEN a ELSE b

\* [x + y for x in xs for y in ys]
ListComp(xs, ys) ==
  [k \in 1..(Len(xs) * Len(ys)) |->
     xs[((k - 1) \div Len(ys)) + 1] \o ys[((k - 1) % Len(ys)) + 1]]

\* ------------------------------------------------- leetspeak_variations

RECURSIVE leetspeak_variations(_)

\* the same, without lowercasing the first character
leetspeak_variations_nolower(word) ==
  IF word = <<>> THEN << <<>> >>
  ELSE LET first_char == <<Head(word)>>
           rest == Tail(word)
           variations == leetspeak_variations(rest)
       IN IF Len(first_char) = 1 /\ first_char[1] \in DOMAIN LEET_DICT
            THEN ListComp([k \in 1..Len(LEET_DICT[first_char[1]]) |->
                             <<LEET_DICT[first_char[1]][k]>>], variations)
            ELSE ListComp(<<first_char>>, variations)

leetspeak_variations(word) ==
  IF word = <<>> THEN << <<>> >>
  ELSE LET first_char == lower(Head(word))
           rest == Tail(word)
           variations == leetspeak_variations(rest)
       IN IF Len(first_char) = 1 /\ first_char[1] \in DOMAIN LEET_DICT
            THEN ListComp([k \in 1..Len(LEET_DICT[first_char[1]]) |->
                             <<LEET_DICT[first_char[1]][k]>>], variations)
            ELSE ListComp(<<first_char>>, variations)

\* ---------------------------------------------------------- process_combo

\* symbol.join(combo)
RECURSIVE join(_, _)
join(symbol, combo) ==
  IF combo = <<>> THEN <<>>
  ELSE IF Len(combo) = 1 THEN combo[1]
  ELSE combo[1] \o symbol \o join(symbol, Tail(combo))

\* for year in years: mangled_words.add(s + year); mangled_words.add(year + s)
\* (what the loop adds to the set)
YearLoop(s, years) ==
  UNION {{s \o years[k], years[k] \o s} : k \in 1..Len(years)}

\* for symbol in JOIN_SYMBOLS: joined = symbol.join(combo); add joined and
\* its year forms (what the loop adds to the set)
SymbolLoop(combo, years) ==
  UNION {LET joined == join(JOIN_SYMBOLS[k], combo)
         IN {joined} \cup YearLoop(joined, years) : k \in 1..Len(JOIN_SYMBOLS)}

\* for variant in leet_variants: add variant, its year forms, and run the
\* symbol loop (what the loop adds to the empty set)
VariantLoop(leet_variants, combo, years) ==
  UNION {LET variant == leet_variants[k]
         IN {variant} \cup YearLoop(variant, years) \cup SymbolLoop(combo, years) :
         k \in 1..Len(leet_variants)}

Raised(e) == [raised |-> TRUE, exc |-> e, value |-> {}]
Returned(v) == [raised |-> FALSE, exc |-> "", value |-> v]

\* the same, with the length guard off by one (>= instead of >)
process_combo_guard(combo, years) ==
  IF \E k \in 1..Len(combo) : ~IsStr(combo[k]) THEN Raised("TypeError")
  ELSE LET base_word == join(<<>>, combo)
           leet_variants == IF Len(base_word) >= LEET_MAX_LEN
                              THEN <<base_word>>
                              ELSE leetspeak_variations(base_word)
       IN IF \E k \in 1..Len(years) : ~IsStr(years[k])
            THEN Raised("TypeError")
            ELSE Returned(VariantLoop(leet_variants, combo, years))

\* str.join raises TypeError on a token that is no str, and so does
\* str + year on a year that is no str (leet_variants is never empty)
process_combo(combo, years) ==
  IF \E k \in 1..Len(combo) : ~IsStr(combo[k]) THEN Raised("TypeError")
  ELSE LET base_word == join(<<>>, combo)
           leet_variants == IF Len(base_word) > LEET_MAX_LEN
                              THEN <<base_word>>
                              ELSE leetspeak_variations(base_word)
       IN IF \E k \in 1..Len(years) : ~IsStr(years[k])
            THEN Raised("TypeError")
            ELSE Returned(VariantLoop(leet_variants, combo, years))

\* ------------------------------------------------------------ combinations

\* itertools.combinations(iterable, r): the r-tuples of elements at increasing
\* positions, in lexicographic order of the positions
RECURSIVE combinations(_, _)
combinations(iterable, r) ==
  IF r = 0 THEN << <<>> >>
  ELSE IF Len(iterable) < r THEN <<>>
  ELSE LET with == combinations(Tail(iterable), r - 1)
       IN [k \in 1..Len(with) |-> <<Head(iterable)>> \o with[k]]
            \o combinations(Tail(iterable), r)

\* chain.from_iterable(combinations(words, r) for r in range(start, stop))
RECURSIVE chain_combinations(_, _, _)
chain_combinations(words, start, stop) ==
  IF start >= stop THEN <<>>
  ELSE combinations(words, start) \o chain_combinations(words, start + 1, stop)

\* the same, with no cap on the size of a combination
all_combos_uncapped(words) ==
  chain_combinations(words, 1, Len(words) + 1)

all_combos(words) ==
  chain_combinations(words, 1, Min(COMBO_RANGE_STOP, Len(words) + 1))

\* ------------------------------------------------------------------ state

VARIABLES
  pc,              \* where generate_wordlist's main thread is
  words, years,    \* the arguments of generate_wordlist
  combos,          \* the list of combinations, one unit of work each
  estimated_total, \* len(combos), the total handed to tqdm
  final_words,     \* the set the results are merged into
  processed,       \* processed[0]
  progress_lock,   \* 0 when free, else the unit whose thread holds it
  futures,         \* future_to_combo in insertion order: futures[u] is combos[u]'s
  pbar_n,          \* the count tqdm has been given so far
  errors,          \* the "[!] Error processing combo ..." lines printed
  idx,             \* position of "for future in future_to_combo"
  ret,             \* the values generate_wordlist returned
  fn, args, called, result   \* one call of a pure function (PureSpec)

vars ==
  <<pc, words, years, combos, estimated_total, final_words, processed,
    progress_lock, futures, pbar_n, errors, idx, ret, fn, args, called, result>>

runVars ==
  <<pc, words, years, combos, estimated_total, final_words, processed,
    progress_lock, futures, pbar_n, errors, idx, ret>>

callVars == <<fn, args, called, result>>

\* ------------------------------------------------------------------ inputs

RECURSIVE SeqsUpTo(_, _)
SeqsUpTo(S, n) ==
  IF n = 0 THEN {<<>>}
  ELSE LET shorter == SeqsUpTo(S, n - 1)
       IN shorter \cup {Append(s, x) : s \in shorter, x \in S}

\* tokens of a modelled run: a str and a token that is no str
RunTokens == {<<"a">>, None}
RunYears == {<<"9">>}

\* characters of the words handed to leetspeak_variations
LeetChars == {"a", "A", "l", "x", IDOT}

\* tokens and years handed to process_combo; the three long tokens have 7, 5
\* and 6 characters, so that their pairs are 10 to 14 characters long
MutTokens ==
  {<<"a", "l">>, <<"9", "9">>, <<"B", "o">>, <<IDOT>>, None,
   <<"x", "x", "x", "x", "x", "x", "a">>, <<"q", "q", "q", "q", "E">>,
   <<"X", "x", "x", "x", "x", "o">>}
MutCombos == {<<t>> : t \in MutTokens} \cup {<<s, t>> : s \in MutTokens, t \in MutTokens}
MutYears == {<<"9", "9">>, <<"2", "0", "2", "0">>}

\* token lists handed to the enumeration: lists over two tokens (with
\* repeats) and lists of pairwise distinct tokens
EnumLists ==
  SeqsUpTo({<<"a", "l">>, <<"9", "9">>}, MaxTokens)
    \cup {[k \in 1..n |-> [j \in 1..k |-> "x"]] : n \in 0..MaxTokens}

\* ------------------------------------------------------ generate_wordlist

NoCall == /\ fn = "none" /\ args = <<>> /\ called = FALSE /\ result = <<>>

Init ==
  /\ pc = "start"
  /\ words \in SeqsUpTo(RunTokens, MaxWords)
  /\ years \in SeqsUpTo(RunYears, MaxYears)
  /\ combos = <<>>
  /\ estimated_total = 0
  /\ final_words = {}
  /\ processed = 0
  /\ progress_lock = 0
  /\ futures = <<>>
  /\ pbar_n = 0
  /\ errors = <<>>
  /\ idx = 1
  /\ ret = <<>>
  /\ NoCall

Future(state, value, exc) == [state |-> state, result |-> value, exc |-> exc]

\* the future has a result or an exception: future.result() no longer blocks
Finished(f) == f.state \in {"done", "failed"}

\* a worker thread is executing the unit
OnThread(f) == f.state \in {"wait_lock", "in_lock", "returning"}

\* combos, final_words, estimated_total, progress_lock, processed; the pool
\* and the tqdm bar are opened
Enumerate ==
  /\ pc = "start"
  /\ combos' = all_combos(words)
  /\ estimated_total' = Len(combos')
  /\ final_words' = {}
  /\ processed' = 0
  /\ pbar_n' = 0
  /\ pc' = "submit"
  /\ UNCHANGED <<words, years, progress_lock, futures, errors, idx, ret>>
  /\ UNCHANGED callVars

\* executor.submit(wrapped_process, combo), for the next combo
Submit ==
  /\ pc = "submit"
  /\ Len(futures) < Len(combos)
  /\ futures' = Append(futures, Future("queued", {}, ""))
  /\ UNCHANGED <<pc, words, years, combos, estimated_total, final_words,
                 processed, progress_lock, pbar_n, errors, idx, ret>>
  /\ UNCHANGED callVars

\* the dict comprehension is complete; the for loop starts
SubmitDone ==
  /\ pc = "submit"
  /\ Len(futures) = Len(combos)
  /\ pc' = "collect"
  /\ idx' = 1
  /\ UNCHANGED <<words, years, combos, estimated_total, final_words,
                 processed, progress_lock, futures, pbar_n, errors, ret>>
  /\ UNCHANGED callVars

SetFuture(u, f) ==
  /\ futures' = [futures EXCEPT ![u] = f]
  /\ UNCHANGED <<pc, words, years, combos, estimated_total, final_words,
                 pbar_n, errors, idx, ret>>
  /\ UNCHANGED callVars

\* a thread of the pool (there are at most MAX_THREADS) takes the oldest
\* queued unit and runs wrapped_process up to the lock:
\* result = process_combo(combo, years); an exception leaves wrapped_process
\* and becomes the future's exception
WorkerRun(u) ==
  /\ futures[u].state = "queued"
  /\ \A v \in 1..(u - 1) : futures[v].state # "queued"
  /\ Cardinality({v \in 1..Len(futures) : OnThread(futures[v])}) < MAX_THREADS
  /\ LET r == process_combo(combos[u], years)
     IN IF r.raised
          THEN SetFuture(u, Future("failed", {}, r.exc))
          ELSE SetFuture(u, Future("wait_lock", r.value, ""))
  /\ UNCHANGED <<processed, progress_lock>>

\* with progress_lock: (enter)
WorkerAcquire(u) ==
  /\ futures[u].state = "wait_lock"
  /\ progress_lock = 0
  /\ progress_lock' = u
  /\ SetFuture(u, [futures[u] EXCEPT !.state = "in_lock"])
  /\ UNCHANGED processed

\* processed[0] += 1, with the lock acquired and never released
WorkerIncrement_norelease(u) ==
  /\ futures[u].state = "in_lock"
  /\ processed' = processed + 1
  /\ progress_lock' = progress_lock
  /\ SetFuture(u, [futures[u] EXCEPT !.state = "returning"])

\* processed[0] += 1, and the lock is released
WorkerIncrement(u) ==
  /\ futures[u].state = "in_lock"
  /\ processed' = processed + 1
  /\ progress_lock' = 0
  /\ SetFuture(u, [futures[u] EXCEPT !.state = "returning"])

\* return result: the future gets its result
WorkerReturn(u) ==
  /\ futures[u].state = "returning"
  /\ SetFuture(u, [futures[u] EXCEPT !.state = "done"])
  /\ UNCHANGED <<processed, progress_lock>>

\* final_words.update(result), with plain assignment in its place
update_assign(s, t) == t

\* final_words.update(result)
update(s, t) == s \cup t

\* the loop position after the except clause, were the exception to end the loop
after_except_abort(i, n) == n + 1

\* the loop position after the except clause: the loop goes on
after_except(i, n) == i + 1

\* result = future.result(); final_words.update(result); pbar.update(1)
CollectResult ==
  /\ pc = "collect"
  /\ idx <= Len(futures)
  /\ futures[idx].state = "done"
  /\ final_words' = update(final_words, futures[idx].result)
  /\ pbar_n' = pbar_n + 1
  /\ idx' = idx + 1
  /\ UNCHANGED <<pc, words, years, combos, estimated_total, processed,
                 progress_lock, futures, errors, ret>>
  /\ UNCHANGED callVars

\* future.result() raises: the except clause prints the combo and the error
CollectError ==
  /\ pc = "collect"
  /\ idx <= Len(futures)
  /\ futures[idx].state = "failed"
  /\ errors' = Append(errors, [combo |-> combos[idx], error |-> futures[idx].exc])
  /\ idx' = after_except(idx, Len(futures))
  /\ UNCHANGED <<pc, words, years, combos, estimated_total, final_words,
                 processed, progress_lock, futures, pbar_n, ret>>
  /\ UNCHANGED callVars

\* the for loop is over; leaving the with blocks closes the bar and calls
\* executor.shutdown(wait=True), which waits for every thread of the pool
ExitPool ==
  /\ pc = "collect"
  /\ idx > Len(futures)
  /\ \A u \in 1..Len(futures) : ~OnThread(futures[u])
  /\ pc' = "report"
  /\ UNCHANGED <<words, years, combos, estimated_total, final_words, processed,
                 progress_lock, futures, pbar_n, errors, idx, ret>>
  /\ UNCHANGED callVars

\* return list(final_words): ret is the tuple of the values returned, the
\* list being held by its content (its order is the set's, which is arbitrary)
Return ==
  /\ pc = "report"
  /\ ret' = <<final_words>>
  /\ pc' = "returned"
  /\ UNCHANGED <<words, years, combos, estimated_total, final_words, processed,
                 progress_lock, futures, pbar_n, errors, idx>>
  /\ UNCHANGED callVars

Next ==
  \/ Enumerate
  \/ Submit
  \/ SubmitDone
  \/ \E u \in 1..Len(futures) : WorkerRun(u)
  \/ \E u \in 1..Len(futures) : WorkerAcquire(u)
  \/ \E u \in 1..Len(futures) : WorkerIncrement(u)
  \/ \E u \in 1..Len(futures) : WorkerReturn(u)
  \/ CollectResult
  \/ CollectError
  \/ ExitPool
  \/ Return

Spec == Init /\ [][Next]_vars

\* the main thread and the pool's threads are operating-system threads: each
\* one that can take a step eventually takes one
FairSpec == Spec /\ WF_vars(Next)

\* --------------------------------------------------- calls of the functions

NotRun ==
  /\ pc = "idle"
  /\ words = <<>> /\ years = <<>> /\ combos = <<>>
  /\ estimated_total = 0 /\ final_words = {} /\ processed = 0
  /\ progress_lock = 0 /\ futures = <<>> /\ pbar_n = 0
  /\ errors = <<>> /\ idx = 1 /\ ret = <<>>

InitPure ==
  /\ NotRun
  /\ called = FALSE
  /\ result = <<>>
  /\ \/ /\ fn = "leetspeak_variations"
        /\ args \in {[word |-> w] : w \in SeqsUpTo(LeetChars, MaxLen)}
     \/ /\ fn = "process_combo"
        /\ args \in {[combo |-> c, years |-> y] :
                       c \in MutCombos, y \in SeqsUpTo(MutYears, MaxYears)}
     \/ /\ fn = "combinations"
        /\ args \in {[words |-> l] : l \in EnumLists}

CallLeet ==
  /\ fn = "leetspeak_variations" /\ ~called
  /\ result' = leetspeak_variations(args.word)
  /\ called' = TRUE
  /\ UNCHANGED <<fn, args>>
  /\ UNCHANGED runVars

CallProcessCombo ==
  /\ fn = "process_combo" /\ ~called
  /\ result' = process_combo(args.combo, args.years)
  /\ called' = TRUE
  /\ UNCHANGED <<fn, args>>
  /\ UNCHANGED runVars

CallCombinations ==
  /\ fn = "combinations" /\ ~called
  /\ result' = all_combos(args.words)
  /\ called' = TRUE
  /\ UNCHANGED <<fn, args>>
  /\ UNCHANGED runVars

NextPure == CallLeet \/ CallProcessCombo \/ CallCombinations

PureSpec == InitPure /\ [][NextPure]_vars

\* ------------------------------------------------------------- properties

Range(s) == {s[k] : k \in 1..Len(s)}

Units == 1..Len(futures)
DoneUnits == {u \in Units : futures[u].state = "done"}
FailedUnits == {u \in Units : futures[u].state = "failed"}

\* every unit the loop has passed is merged, or reported with combo and error
C1_Passed ==
  \A u \in Units :
    (pc \in {"collect", "report", "returned"} /\ u < idx) =>
      LET r == process_combo(combos[u], years)
      IN IF r.raised
           THEN \E k \in 1..Len(errors) :
                  errors[k] = [combo |-> combos[u], error |-> r.exc]
           ELSE r.value \subseteq final_words
\* the run returns after the loop has passed every unit
C1_Returned ==
  pc = "returned" =>
    /\ Len(futures) = Len(combos)
    /\ idx = Len(combos) + 1
    /\ Len(errors) = Cardinality(FailedUnits)
\* C1: a unit whose mutation raises is reported with its combination and the
\* error, and the loop goes on: every unit the loop has passed is either merged
\* into final_words or reported, the run returns only after the loop has passed
\* every unit, with one report per failed unit, and no step removes a word
\* from final_words.
C1_FailureIsolation ==
  /\ [](C1_Passed /\ C1_Returned)
  /\ [][final_words \subseteq final_words']_vars

\* a run has returned in which a unit failed and a later unit was merged
C1_Witness ==
  /\ pc = "returned"
  /\ \E u \in FailedUnits : \E v \in DoneUnits :
       /\ u < v
       /\ futures[v].result # {}
       /\ futures[v].result \subseteq final_words
       /\ \E k \in 1..Len(errors) : errors[k].combo = combos[u]

\* the words of a run on (w, y), from the inputs alone
ExpectedWords(w, y) ==
  UNION {process_combo(c, y).value : c \in Range(all_combos(w))}

\* C2: whatever the interleaving, final_words is at every step the union of
\* the results of the successful units the loop has passed, and when the run
\* has returned it is the union of the results of all successful units, which
\* is a function of (words, years) alone, and it is what is returned.
C2_ExactUnion ==
  /\ final_words = UNION {futures[u].result : u \in {v \in DoneUnits : v < idx}}
  /\ pc = "returned" =>
       /\ final_words = UNION {futures[u].result : u \in DoneUnits}
       /\ final_words = ExpectedWords(words, years)
       /\ ret = <<final_words>>

\* a run has returned that merged two successful units with different results
C2_Witness ==
  /\ pc = "returned"
  /\ \E u \in DoneUnits : \E v \in DoneUnits :
       /\ futures[u].result # futures[v].result
       /\ ~(futures[u].result \subseteq futures[v].result)
       /\ ~(futures[v].result \subseteq futures[u].result)
  /\ ret = <<final_words>>

\* C3: the count of completed units never exceeds the number of units and,
\* when the run has returned, equals the number of combinations, failed units
\* included.
C3_ProgressAccounting ==
  /\ processed <= Len(combos)
  /\ pc = "returned" => processed = Len(combos)

\* the number of steps a run can still take: it is a natural number
StepsLeft ==
  LET n == IF pc = "start" THEN Len(all_combos(words)) ELSE Len(combos)
      left(u) == CASE futures[u].state = "queued" -> 4
                   [] futures[u].state = "wait_lock" -> 3
                   [] futures[u].state = "in_lock" -> 2
                   [] futures[u].state = "returning" -> 1
                   [] OTHER -> 0
      RECURSIVE sum(_)
      sum(u) == IF u = 0 THEN 0 ELSE left(u) + sum(u - 1)
  IN (CASE pc = "start" -> 4 [] pc = "submit" -> 3 [] pc = "collect" -> 2
        [] pc = "report" -> 1 [] OTHER -> 0)
     + 5 * (n - Len(futures)) + sum(Len(futures)) + (n + 1 - idx)

\* the main thread is not blocked: it blocks only in future.result(), on a
\* future that has neither result nor exception, and in shutdown(wait=True)
MainCanStep ==
  \/ pc \in {"start", "submit", "report"}
  \/ /\ pc = "collect"
     /\ IF idx <= Len(futures)
          THEN Finished(futures[idx])
          ELSE \A u \in Units : ~OnThread(futures[u])

\* some thread of the pool is not blocked: it blocks only on the lock, and a
\* queued unit waits for a thread
WorkerCanStep ==
  \E u \in Units :
    \/ futures[u].state \in {"in_lock", "returning"}
    \/ futures[u].state = "wait_lock" /\ progress_lock = 0
    \/ /\ futures[u].state = "queued"
       /\ \A v \in 1..(u - 1) : futures[v].state # "queued"
       /\ Cardinality({v \in Units : OnThread(futures[v])}) < MAX_THREADS

\* MainCanStep \/ WorkerCanStep is exactly ENABLED Next
CanStepIsEnabled == (MainCanStep \/ WorkerCanStep) <=> ENABLED Next

\* C7: the run eventually returns: as long as it has not returned some thread
\* can take a step, and every step lowers StepsLeft, so that under FairSpec's
\* fairness "returned" is reached; and when the run has returned every
\* combination was submitted and every unit has a result or an exception:
\* none is queued or on a thread.
C7_Termination ==
  /\ [](pc = "returned" \/ MainCanStep \/ WorkerCanStep)
  /\ [](StepsLeft >= 0)
  /\ [][StepsLeft' < StepsLeft]_vars
  /\ [](pc = "returned" =>
          /\ Len(futures) = Len(combos)
          /\ \A u \in Units : futures[u].state \in {"done", "failed"})

\* the same, stated with the temporal operator
C7_Eventually == <>(pc = "returned")

\* a run of at least three units, one of them failed, has returned
C7_Witness ==
  /\ pc = "returned"
  /\ Len(futures) >= 3
  /\ DoneUnits # {}
  /\ FailedUnits # {}

\* C8: with a token that is no str among the words, no unit is ever submitted
\* to the pool.
C8_FailFast ==
  (\E k \in 1..Len(words) : ~IsStr(words[k])) => futures = <<>>

\* C9: the run returns the aggregated set together with stats, and the
\* stats' count of failed tasks is the number of units that raised.
C9_FailureCount ==
  pc = "returned" =>
    /\ Len(ret) = 2
    /\ ret[1] = UNION {futures[u].result : u \in DoneUnits}
    /\ ret[2].failed = Cardinality(FailedUnits)

\* C10: the count given to the bar never exceeds the total; the bar is told
\* of a unit as the unit completes, so that the units that have completed are
\* never more than those the bar has been told of, but for one whose
\* completion is just being reported; and when the run has returned the bar
\* has been told of every unit.
C10_SynchronousProgress ==
  /\ pbar_n <= estimated_total
  /\ Cardinality(DoneUnits \cup FailedUnits) <= pbar_n + 1
  /\ pc = "returned" => pbar_n = estimated_total

\* ----------------------------------------------- properties of the functions

Binomial(n, k) ==
  LET RECURSIVE c(_, _)
      c(m, j) == IF j = 0 THEN 1 ELSE IF m = 0 THEN 0
                 ELSE c(m - 1, j - 1) + c(m - 1, j)
  IN c(n, k)

SumBinomial(n, m) ==
  LET RECURSIVE sum(_)
      sum(r) == IF r = 0 THEN 0 ELSE Binomial(n, r) + sum(r - 1)
  IN sum(m)

\* the tokens of l at the positions S, in the order of l
Selection(l, S) ==
  LET nth(k) == CHOOSE x \in S : Cardinality({y \in S : y < x}) = k - 1
  IN [k \in 1..Cardinality(S) |-> l[nth(k)]]

\* units holds, once for each set of 1..m positions of l, the tokens at these
\* positions in the order of l, and nothing else
IsEnumeration(units, l, m) ==
  LET sets == {S \in SUBSET (1..Len(l)) : Cardinality(S) \in 1..m}
  IN /\ Len(units) = SumBinomial(Len(l), m)
     /\ Len(units) = Cardinality(sets)
     /\ \A S \in sets :
          Cardinality({k \in 1..Len(units) : units[k] = Selection(l, S)})
            = Cardinality({T \in sets : Selection(l, T) = Selection(l, S)})
     /\ \A k \in 1..Len(units) : \E S \in sets : units[k] = Selection(l, S)

EnumCalled == fn = "combinations" /\ called

\* C4, as claimed: the units are the r-subsets of the tokens for r from 1 to
\* min(6, N), in the order of the list, and there are sum of C(N, r) of them;
\* ["al", "99"] has 3 units.
C4_SizesUpTo6 ==
  EnumCalled =>
    /\ IsEnumeration(result, args.words, Min(6, Len(args.words)))
    /\ args.words = << <<"a", "l">>, <<"9", "9">> >> => Len(result) = 3

\* C4, amended: the same for r from 1 to min(5, N): no unit has 6 tokens.
C4_SizesUpTo5 ==
  EnumCalled =>
    /\ IsEnumeration(result, args.words, Min(5, Len(args.words)))
    /\ args.words = << <<"a", "l">>, <<"9", "9">> >> =>
         result = << << <<"a", "l">> >>, << <<"9", "9">> >>,
                     << <<"a", "l">>, <<"9", "9">> >> >>

\* six pairwise distinct tokens were enumerated: 62 units, none of 6 tokens
C4_Witness ==
  /\ EnumCalled
  /\ Len(args.words) = 6
  /\ \A j \in 1..6 : \A k \in 1..6 : j # k => args.words[j] # args.words[k]
  /\ Len(result) = 62
  /\ \A k \in 1..Len(result) : Len(result[k]) <= 5

MutateCalled == fn = "process_combo" /\ called

\* the set the claim describes
MutationSet(combo, yrs) ==
  LET base_word == join(<<>>, combo)
      leet_variants == IF Len(base_word) <= 12
                         THEN Range(leetspeak_variations(base_word))
                         ELSE {base_word}
      joins == {join(JOIN_SYMBOLS[k], combo) : k \in 1..9}
      Y == Range(yrs)
  IN leet_variants \cup {v \o y : v \in leet_variants, y \in Y}
       \cup {y \o v : v \in leet_variants, y \in Y}
       \cup joins \cup {j \o y : j \in joins, y \in Y}
       \cup {y \o j : j \in joins, y \in Y}

\* C5: on tokens that are strs, process_combo does not raise and returns
\* exactly {v, v+y, y+v} over the leet variants and {j, j+y, y+j} over the 9
\* joined forms, the leet variants being the expansion of the base word when
\* it has at most 12 characters and the base word alone otherwise; for a combo
\* of one token every joined form is the base word.
C5_MutationSet ==
  (MutateCalled /\ \A k \in 1..Len(args.combo) : IsStr(args.combo[k])) =>
    /\ ~result.raised
    /\ result.value = MutationSet(args.combo, args.years)
    /\ Len(JOIN_SYMBOLS) = 9
    /\ Len(args.combo) = 1 =>
         \A k \in 1..9 : join(JOIN_SYMBOLS[k], args.combo) = args.combo[1]

\* a combo of two tokens and more than 12 characters was mutated with a year:
\* the base word is in the result with its case kept
C5_Witness ==
  /\ MutateCalled
  /\ Len(args.combo) = 2
  /\ Len(args.combo[1] \o args.combo[2]) > 12
  /\ args.years # <<>>
  /\ ~result.raised
  /\ (args.combo[1] \o args.combo[2] \o args.years[1]) \in result.value

LeetCalled == fn = "leetspeak_variations" /\ called

\* the substitution list of the lowercased character, as a set of strs
Candidates(c) ==
  IF Len(lower(c)) = 1 /\ lower(c)[1] \in DOMAIN LEET_DICT
    THEN {<<x>> : x \in Range(LEET_DICT[lower(c)[1]])}
    ELSE {lower(c)}

\* the Cartesian product of the positions' candidates, each choice concatenated
CartesianProduct(word) ==
  LET all == UNION {Candidates(word[i]) : i \in 1..Len(word)}
  IN {join(<<>>, ch) :
        ch \in {f \in [1..Len(word) -> all] :
                  \A i \in 1..Len(word) : f[i] \in Candidates(word[i])}}

ProductOfCounts(word) ==
  LET RECURSIVE prod(_)
      prod(i) == IF i = 0 THEN 1 ELSE Cardinality(Candidates(word[i])) * prod(i - 1)
  IN prod(Len(word))

LoweredLength(word) ==
  LET RECURSIVE sum(_)
      sum(i) == IF i = 0 THEN 0 ELSE Len(lower(word[i])) + sum(i - 1)
  IN sum(Len(word))

\* what C6 claims and the code does
C6_Product ==
  /\ Range(result) = CartesianProduct(args.word)
  /\ Len(result) = ProductOfCounts(args.word)
  /\ Cardinality(Range(result)) = Len(result)
  /\ args.word = <<>> => result = << <<>> >>
  /\ args.word = <<"a">> => Range(result) = {<<"a">>, <<"@">>, <<"4">>}

\* C6, as claimed: the results are the Cartesian product of the lowercased
\* characters' substitution lists, as many as the product of the lists'
\* lengths, without duplicates, each as long as the input; "" gives only "",
\* and "a" gives a, @ and 4.
C6_SameLength ==
  LeetCalled =>
    /\ C6_Product
    /\ \A k \in 1..Len(result) : Len(result[k]) = Len(args.word)

\* C6, amended: each result is as long as the lowercased characters of the
\* input together, which is the length of the input unless a character's
\* lower case has more than one character.
C6_LoweredLength ==
  LeetCalled =>
    /\ C6_Product
    /\ \A k \in 1..Len(result) : Len(result[k]) = LoweredLength(args.word)
    /\ (\A i \in 1..Len(args.word) : Len(lower(args.word[i])) = 1) =>
         \A k \in 1..Len(result) : Len(result[k]) = Len(args.word)

\* a word with an upper-case A and U+0130 was expanded: the results are longer
\* than the word
C6_Witness ==
  /\ LeetCalled
  /\ \E i \in 1..Len(args.word) : args.word[i] = "A"
  /\ \E i \in 1..Len(args.word) : args.word[i] = IDOT
  /\ Len(result) >= 3
  /\ \A k \in 1..Len(result) : Len(result[k]) > Len(args.word)

====
